---------------------------- MODULE Spec2Model ----------------------------
(***************************************************************************)
(* A model of the BEN / ben32 encoders of src/src/encode/mod.rs.           *)
(*                                                                         *)
(*   SpecBlock   encode_ben_vec_from_rle, one statement group per step,    *)
(*               followed by the decoding of the block it produced         *)
(*   SpecBen     jsonl_encode_ben, one input line per step                 *)
(*   SpecBen32   encode_ben_32_line on one JSON line                       *)
(*   SpecXlate   encode_ben_to_xben                                        *)
(*                                                                         *)
(* Bytes are numbers in 0..255, byte strings are sequences of bytes, a run *)
(* is a pair <<value, length>>.                                            *)
(***************************************************************************)
EXTENDS Integers, Sequences, FiniteSets, TLC

VARIABLES
    \* ---- SpecBlock: encode_ben_vec_from_rle and the decoder
    assign_vec,      \* the assignment vector the runs were taken from
    rle_vec,         \* the argument of encode_ben_vec_from_rle
    max_val_bits,    \* locals of encode_ben_vec_from_rle ...
    max_len_bits,
    n_bytes,
    output_vec,
    remainder,
    remainder_bits,
    new_val,
    n_bits_left,
    idx,             \* position of the for loop in rle_vec (1-based)
    pc,              \* position in encode_ben_vec_from_rle / the decoder
    decoded_rle,     \* runs the decoder unpacked from output_vec
    decoded_vec,     \* the vector the decoder expanded them to
    \* ---- SpecBen: jsonl_encode_ben
    lines,           \* the input file, one entry per line
    line_num,        \* as in the code: 1 + number of lines taken so far
    writer,          \* the bytes the writer has received
    status,          \* "start" | "running" | "ok" | "panicked"
    \* ---- SpecBen32: encode_ben_32_line
    data,            \* the JSON value of the line
    build,           \* "debug" (overflow checks on) | "release" (wrapping)
    ret,             \* the returned bytes
    status32,        \* "start" | "done" | "panicked"
    \* ---- SpecXlate: encode_ben_to_xben
    reader,          \* the input bytes
    rpos,            \* bytes of reader consumed so far
    check_buffer,
    encoder_in,      \* the bytes fed to the XzEncoder so far
    xwriter,         \* what the output writer has received
    xpc,             \* position in encode_ben_to_xben
    xstatus          \* "running" | "ok" | "err_eof" | "err_format"

blockVars == <<assign_vec, rle_vec, max_val_bits, max_len_bits, n_bytes, output_vec,
               remainder, remainder_bits, new_val, n_bits_left, idx, pc,
               decoded_rle, decoded_vec>>
benVars   == <<lines, line_num, writer, status>>
b32Vars   == <<data, build, ret, status32>>
xlVars    == <<reader, rpos, check_buffer, encoder_in, xwriter, xpc, xstatus>>
vars      == <<blockVars, benVars, b32Vars, xlVars>>

---------------------------------------------------------------------------
(* Bounds of the model.                                                    *)

\* longest assignment vector drawn for SpecBlock
MaxVecLen == 3
\* most runs in a run sequence drawn for SpecBlock
MaxRuns == 2
\* most lines in an input file of SpecBen
MaxLines == 2
\* longest short vector given to encode_ben_32_line
MaxLen32 == 4
\* most BEN blocks after the header in an input of SpecXlate
MaxBlocks == 1

\* labels of the vectors of SpecBlock
VecLabels == {0, 1, 2, 65535}
\* run values and run lengths of the run sequences of SpecBlock
RunVals == {0, 1, 5, 100, 1000, 65535}
RunLens == {1, 3, 20, 65535}

---------------------------------------------------------------------------
(* Machine arithmetic.                                                     *)

U16Mod == 65536

\* x as u8 and x as u16, of a number
AsU8(x) == x % 256
AsU16(x) == x % U16Mod

RECURSIVE BitAnd(_, _)
\* a & b, of numbers
BitAnd(a, b) ==
    IF a = 0 \/ b = 0 THEN 0
    ELSE ((a % 2) * (b % 2)) + 2 * BitAnd(a \div 2, b \div 2)

RECURSIVE BitOr(_, _)
\* a | b, of numbers
BitOr(a, b) ==
    IF a = 0 THEN b
    ELSE IF b = 0 THEN a
    ELSE (IF (a % 2) + (b % 2) > 0 THEN 1 ELSE 0) + 2 * BitOr(a \div 2, b \div 2)

\* A u32 is the pair <<hi, lo>> of its 16-bit halves (its value is 65536 * hi + lo),
\* since TLC's integers end below 2^31.
\* n as u32, of a number below 2^31
U32(n) == <<n \div U16Mod, n % U16Mod>>

\* 0xFFFFFFFF
AllOnes32 == <<U16Mod - 1, U16Mod - 1>>

\* u32 << n, for n in 0..31: the bits shifted past bit 31 are lost
Shl32(x, n) ==
    IF n = 0 THEN x
    ELSE IF n >= 16 THEN <<(x[2] % (2 ^ (32 - n))) * (2 ^ (n - 16)), 0>>
    ELSE <<(x[1] % (2 ^ (16 - n))) * (2 ^ n) + x[2] \div (2 ^ (16 - n)),
           (x[2] % (2 ^ (16 - n))) * (2 ^ n)>>

\* u32 >> n, for n in 0..31
Shr32(x, n) ==
    IF n = 0 THEN x
    ELSE IF n >= 16 THEN <<0, x[1] \div (2 ^ (n - 16))>>
    ELSE <<x[1] \div (2 ^ n), (x[1] % (2 ^ n)) * (2 ^ (16 - n)) + x[2] \div (2 ^ n)>>

\* !x, x & y and x | y on u32
Not32(x) == <<(U16Mod - 1) - x[1], (U16Mod - 1) - x[2]>>
And32(x, y) == <<BitAnd(x[1], y[1]), BitAnd(x[2], y[2])>>
Or32(x, y) == <<BitOr(x[1], y[1]), BitOr(x[2], y[2])>>

\* x as u8, of a u32
U32AsU8(x) == x[2] % 256

RECURSIVE LeadingZerosFrom(_, _)
LeadingZerosFrom(x, i) ==
    IF i < 0 THEN 0
    ELSE IF (x \div (2 ^ i)) % 2 = 1 THEN 0
    ELSE 1 + LeadingZerosFrom(x, i - 1)

\* u16::leading_zeros
leading_zeros(x) == LeadingZerosFrom(x, 15)

\* u32::to_le_bytes
to_le_bytes(x) == <<x[2] % 256, x[2] \div 256, x[1] % 256, x[1] \div 256>>

\* u32::to_be_bytes
to_be_bytes(x) == <<x[1] \div 256, x[1] % 256, x[2] \div 256, x[2] % 256>>

\* "STANDARD BEN FILE".as_bytes()
Magic == <<83, 84, 65, 78, 68, 65, 82, 68, 32, 66, 69, 78, 32, 70, 73, 76, 69>>

---------------------------------------------------------------------------
(* encode_ben_vec_from_rle: the pieces.                                    *)

None == [some |-> FALSE, v |-> <<0, 0>>]
Some(x) == [some |-> TRUE, v |-> x]

\* max_by_key followed by unwrap_or_default instead of unwrap
MaxByKeyOrDefault(s, k) ==
    IF Len(s) = 0 THEN [some |-> TRUE, v |-> <<0, 0>>]
    ELSE [some |-> TRUE,
          v |-> s[CHOOSE i \in 1..Len(s) : \A j \in 1..Len(s) : s[j][k] <= s[i][k]]]

\* Iterator::max_by_key on component k: None on an empty sequence, else the
\* last of the elements whose key is greatest
max_by_key(s, k) ==
    IF Len(s) = 0 THEN None
    ELSE Some(s[CHOOSE i \in 1..Len(s) :
                  /\ \A j \in 1..Len(s) : s[j][k] <= s[i][k]
                  /\ \A j \in (i + 1)..Len(s) : s[j][k] < s[i][k]])

\* MaxValBits without .max(1)
MaxValBitsNoClamp(max_val) == 16 - AsU8(leading_zeros(max_val))

\* (16 - max_val.leading_zeros() as u8).max(1)
MaxValBits(max_val) ==
    LET b == 16 - AsU8(leading_zeros(max_val)) IN IF b >= 1 THEN b ELSE 1

\* 16 - max_len.leading_zeros() as u8
MaxLenBits(max_len) == 16 - AsU8(leading_zeros(max_len))

\* NBytes adding the extra byte also when the bits fill whole bytes
NBytesPlusOne(assign_bits, len) == (assign_bits * len) \div 8 + 1

\* n_bytes, from assign_bits and rle_vec.len()
NBytes(assign_bits, len) ==
    IF (assign_bits * len) % 8 = 0
    THEN (assign_bits * len) \div 8
    ELSE (assign_bits * len) \div 8 + 1

\* the six header bytes
Header(vb, lb, nb) == <<vb, lb>> \o to_be_bytes(U32(nb))

\* ShiftIn dropping the bits carried over from the previous field
ShiftInNoCarry(acc, field, width) ==
    [val |-> U32(field), bits |-> acc.bits + width, out |-> acc.out]

\* The accumulator of the packing loop: val is new_val, bits is n_bits_left,
\* out is output_vec.
\* new_val = (acc << width) | field;  n_bits_left = bits + width
ShiftIn(acc, field, width) ==
    [val  |-> Or32(Shl32(acc.val, width), U32(field)),
     bits |-> acc.bits + width,
     out  |-> acc.out]

\* EmitByte without masking the accumulator to the bits left
EmitByteNoMask(acc) ==
    [val  |-> acc.val,
     bits |-> acc.bits - 8,
     out  |-> Append(acc.out, U32AsU8(Shr32(acc.val, acc.bits - 8)))]

\* one iteration of  while n_bits_left >= 8 { ... }
EmitByte(acc) ==
    LET n == acc.bits - 8 IN
    [val  |-> And32(acc.val, Not32(Shl32(AllOnes32, n))),
     bits |-> n,
     out  |-> Append(acc.out, U32AsU8(Shr32(acc.val, n)))]

RECURSIVE Drain(_)
\* while n_bits_left >= 8 { ... }
Drain(acc) == IF acc.bits >= 8 THEN Drain(EmitByte(acc)) ELSE acc

\* the body of  for (val, len) in rle_vec
PushRun(acc, run, vb, lb) ==
    Drain(ShiftIn(Drain(ShiftIn(acc, run[1], vb)), run[2], lb))

RECURSIVE PushRuns(_, _, _, _, _)
PushRuns(acc, rle, i, vb, lb) ==
    IF i > Len(rle) THEN acc
    ELSE PushRuns(PushRun(acc, rle[i], vb, lb), rle, i + 1, vb, lb)

\* FinalFlush pushing the left-over bits without moving them to the top of the byte
FinalFlushNoShift(out, rem, rem_bits) ==
    IF rem_bits > 0 THEN Append(out, U32AsU8(rem)) ELSE out

\* if remainder_bits > 0 { output_vec.push((remainder << (8 - remainder_bits)) as u8) }
FinalFlush(out, rem, rem_bits) ==
    IF rem_bits > 0 THEN Append(out, U32AsU8(Shl32(rem, 8 - rem_bits))) ELSE out

\* encode_ben_vec_from_rle as a function: ok = FALSE is the panic of unwrap()
\* on an empty rle_vec
encode_ben_vec_from_rle(rle) ==
    LET mv == max_by_key(rle, 1)
        ml == max_by_key(rle, 2)
    IN  IF ~mv.some \/ ~ml.some THEN [ok |-> FALSE, bytes |-> <<>>]
        ELSE LET vb  == MaxValBits(mv.v[1])
                 lb  == MaxLenBits(ml.v[2])
                 nb  == NBytes(vb + lb, Len(rle))
                 acc == PushRuns([val |-> U32(0), bits |-> 0, out |-> Header(vb, lb, nb)],
                                 rle, 1, vb, lb)
             IN  [ok |-> TRUE, bytes |-> FinalFlush(acc.out, acc.val, acc.bits)]

---------------------------------------------------------------------------
(* The run-length transform and the decoder of a block.  Their code        *)
(* (utils::assign_to_rle, the decode module) is not among the sources;     *)
(* they are modelled from sections 4.1 to 4.3 of the specification.        *)

\* longest vector the decoder's expansion step is modelled for
MaxExpand == 8

RECURSIVE AssignToRleFrom(_, _, _)
AssignToRleFrom(vec, i, runs) ==
    IF i > Len(vec) THEN runs
    ELSE IF Len(runs) > 0 /\ runs[Len(runs)][1] = vec[i]
         THEN AssignToRleFrom(vec, i + 1,
                  [runs EXCEPT ![Len(runs)] = <<vec[i], runs[Len(runs)][2] + 1>>])
         ELSE AssignToRleFrom(vec, i + 1, Append(runs, <<vec[i], 1>>))

\* RunLengthTransform.encode
assign_to_rle(vec) == AssignToRleFrom(vec, 1, <<>>)

RECURSIVE rle_to_vec(_)
\* RunLengthTransform.decode
rle_to_vec(runs) ==
    IF Len(runs) = 0 THEN <<>>
    ELSE [i \in 1..runs[1][2] |-> runs[1][1]] \o rle_to_vec(Tail(runs))

RECURSIVE TotalLen(_)
TotalLen(runs) == IF Len(runs) = 0 THEN 0 ELSE runs[1][2] + TotalLen(Tail(runs))

RECURSIVE Extract(_, _, _)
\* BitUnpacker: take a value once valueBits bits are buffered, then a length once
\* lengthBits bits are buffered, as long as the buffer allows
Extract(st, vb, lb) ==
    IF vb + lb = 0 THEN st
    ELSE IF ~st.have_val /\ st.nbits >= vb
    THEN Extract([st EXCEPT !.have_val = TRUE,
                            !.val = st.buf \div (2 ^ (st.nbits - vb)),
                            !.buf = st.buf % (2 ^ (st.nbits - vb)),
                            !.nbits = st.nbits - vb], vb, lb)
    ELSE IF st.have_val /\ st.nbits >= lb
    THEN Extract([st EXCEPT !.have_val = FALSE,
                            !.runs = Append(st.runs,
                                            <<st.val, st.buf \div (2 ^ (st.nbits - lb))>>),
                            !.buf = st.buf % (2 ^ (st.nbits - lb)),
                            !.nbits = st.nbits - lb], vb, lb)
    ELSE st

RECURSIVE UnpackFrom(_, _, _, _, _)
UnpackFrom(st, payload, i, vb, lb) ==
    IF i > Len(payload) THEN st
    ELSE UnpackFrom(Extract([st EXCEPT !.buf = st.buf * 256 + payload[i],
                                       !.nbits = st.nbits + 8], vb, lb),
                    payload, i + 1, vb, lb)

\* BitUnpacker: the runs of a payload, the reader stopping on the byte count
Unpack(vb, lb, payload) ==
    UnpackFrom([buf |-> 0, nbits |-> 0, have_val |-> FALSE, val |-> 0, runs |-> <<>>],
               payload, 1, vb, lb).runs

\* the u32 of four big-endian bytes
from_be_bytes(b) == ((b[1] * 256 + b[2]) * 256 + b[3]) * 256 + b[4]

\* BenBlockCodec.decodeBlock up to the runs: the 6-byte header, byteLength payload
\* bytes, the runs; rest is what follows the block
DecodeBlock(bytes) ==
    IF Len(bytes) < 6 THEN [ok |-> FALSE, runs |-> <<>>, rest |-> <<>>]
    ELSE LET nb == from_be_bytes(SubSeq(bytes, 3, 6)) IN
         IF Len(bytes) < 6 + nb THEN [ok |-> FALSE, runs |-> <<>>, rest |-> <<>>]
         ELSE [ok   |-> TRUE,
               runs |-> Unpack(bytes[1], bytes[2], SubSeq(bytes, 7, 6 + nb)),
               rest |-> SubSeq(bytes, 7 + nb, Len(bytes))]

---------------------------------------------------------------------------
(* SpecBlock: encode_ben_vec_from_rle step by step, then the decoder.      *)

SeqsUpTo(S, n) == UNION {[1..k -> S] : k \in 0..n}

Vectors == SeqsUpTo(VecLabels, MaxVecLen)
RunSeqs == SeqsUpTo(RunVals \X RunLens, MaxRuns)

IdleBlock ==
    /\ assign_vec = <<>> /\ rle_vec = <<>>
    /\ max_val_bits = 0 /\ max_len_bits = 0 /\ n_bytes = 0 /\ output_vec = <<>>
    /\ remainder = U32(0) /\ remainder_bits = 0 /\ new_val = U32(0) /\ n_bits_left = 0
    /\ idx = 0 /\ pc = "idle" /\ decoded_rle = <<>> /\ decoded_vec = <<>>

IdleBen == lines = <<>> /\ line_num = 1 /\ writer = <<>> /\ status = "idle"

IdleBen32 == data = [kind |-> "noassign", array |-> <<>>] /\ build = "release" /\ ret = <<>> /\ status32 = "idle"

IdleXlate ==
    /\ reader = <<>> /\ rpos = 0 /\ check_buffer = <<>> /\ encoder_in = <<>>
    /\ xwriter = <<>> /\ xpc = "idle" /\ xstatus = "idle"

InitBlock ==
    /\ max_val_bits = 0 /\ max_len_bits = 0 /\ n_bytes = 0 /\ output_vec = <<>>
    /\ remainder = U32(0) /\ remainder_bits = 0 /\ new_val = U32(0) /\ n_bits_left = 0
    /\ idx = 0 /\ decoded_rle = <<>> /\ decoded_vec = <<>>
    /\ \/ pc = "vec" /\ assign_vec \in Vectors /\ rle_vec = <<>>
       \/ pc = "rle" /\ assign_vec = <<>> /\ rle_vec \in RunSeqs
    /\ IdleBen /\ IdleBen32 /\ IdleXlate

\* jsonl_encode_ben's call of assign_to_rle on the line's vector
AssignToRle ==
    /\ pc = "vec"
    /\ rle_vec' = assign_to_rle(assign_vec)
    /\ pc' = "rle"
    /\ UNCHANGED <<assign_vec, max_val_bits, max_len_bits, n_bytes, output_vec, remainder,
                   remainder_bits, new_val, n_bits_left, idx, decoded_rle, decoded_vec>>
    /\ UNCHANGED <<benVars, b32Vars, xlVars>>

\* unwrap() of max_by_key on an empty rle_vec
PanicEmpty ==
    /\ pc = "rle"
    /\ ~max_by_key(rle_vec, 1).some
    /\ pc' = "panicked"
    /\ UNCHANGED <<assign_vec, rle_vec, max_val_bits, max_len_bits, n_bytes, output_vec,
                   remainder, remainder_bits, new_val, n_bits_left, idx, decoded_rle,
                   decoded_vec>>
    /\ UNCHANGED <<benVars, b32Vars, xlVars>>

\* the widths, n_bytes and the header
ComputeWidths ==
    /\ pc = "rle"
    /\ max_by_key(rle_vec, 1).some
    /\ max_by_key(rle_vec, 2).some
    /\ LET vb == MaxValBits(max_by_key(rle_vec, 1).v[1])
           lb == MaxLenBits(max_by_key(rle_vec, 2).v[2])
           nb == NBytes(vb + lb, Len(rle_vec))
       IN  /\ max_val_bits' = vb
           /\ max_len_bits' = lb
           /\ n_bytes' = nb
           /\ output_vec' = Header(vb, lb, nb)
    /\ remainder' = U32(0)
    /\ remainder_bits' = 0
    /\ idx' = 1
    /\ pc' = "shift_val"
    /\ UNCHANGED <<assign_vec, rle_vec, new_val, n_bits_left, decoded_rle, decoded_vec>>
    /\ UNCHANGED <<benVars, b32Vars, xlVars>>

\* new_val = (remainder << max_val_bits) | val; n_bits_left = remainder_bits + max_val_bits
ShiftVal ==
    /\ pc = "shift_val"
    /\ LET acc == ShiftIn([val |-> remainder, bits |-> remainder_bits, out |-> output_vec],
                          rle_vec[idx][1], max_val_bits)
       IN  new_val' = acc.val /\ n_bits_left' = acc.bits
    /\ pc' = "emit_val"
    /\ UNCHANGED <<assign_vec, rle_vec, max_val_bits, max_len_bits, n_bytes, output_vec,
                   remainder, remainder_bits, idx, decoded_rle, decoded_vec>>
    /\ UNCHANGED <<benVars, b32Vars, xlVars>>

\* one iteration of the first while loop
EmitValByte ==
    /\ pc = "emit_val"
    /\ n_bits_left >= 8
    /\ LET acc == EmitByte([val |-> new_val, bits |-> n_bits_left, out |-> output_vec])
       IN  new_val' = acc.val /\ n_bits_left' = acc.bits /\ output_vec' = acc.out
    /\ UNCHANGED <<assign_vec, rle_vec, max_val_bits, max_len_bits, n_bytes, remainder,
                   remainder_bits, idx, pc, decoded_rle, decoded_vec>>
    /\ UNCHANGED <<benVars, b32Vars, xlVars>>

\* new_val = (new_val << max_len_bits) | len; n_bits_left += max_len_bits
ShiftLen ==
    /\ pc = "emit_val"
    /\ n_bits_left < 8
    /\ LET acc == ShiftIn([val |-> new_val, bits |-> n_bits_left, out |-> output_vec],
                          rle_vec[idx][2], max_len_bits)
       IN  new_val' = acc.val /\ n_bits_left' = acc.bits
    /\ pc' = "emit_len"
    /\ UNCHANGED <<assign_vec, rle_vec, max_val_bits, max_len_bits, n_bytes, output_vec,
                   remainder, remainder_bits, idx, decoded_rle, decoded_vec>>
    /\ UNCHANGED <<benVars, b32Vars, xlVars>>

\* one iteration of the second while loop
EmitLenByte ==
    /\ pc = "emit_len"
    /\ n_bits_left >= 8
    /\ LET acc == EmitByte([val |-> new_val, bits |-> n_bits_left, out |-> output_vec])
       IN  new_val' = acc.val /\ n_bits_left' = acc.bits /\ output_vec' = acc.out
    /\ UNCHANGED <<assign_vec, rle_vec, max_val_bits, max_len_bits, n_bytes, remainder,
                   remainder_bits, idx, pc, decoded_rle, decoded_vec>>
    /\ UNCHANGED <<benVars, b32Vars, xlVars>>

\* remainder_bits = n_bits_left; remainder = new_val; the next run, or the loop's end
EndRun ==
    /\ pc = "emit_len"
    /\ n_bits_left < 8
    /\ remainder' = new_val
    /\ remainder_bits' = n_bits_left
    /\ idx' = idx + 1
    /\ pc' = IF idx = Len(rle_vec) THEN "flush" ELSE "shift_val"
    /\ UNCHANGED <<assign_vec, rle_vec, max_val_bits, max_len_bits, n_bytes, output_vec,
                   new_val, n_bits_left, decoded_rle, decoded_vec>>
    /\ UNCHANGED <<benVars, b32Vars, xlVars>>

\* the final partial byte, and the return of output_vec
Flush ==
    /\ pc = "flush"
    /\ output_vec' = FinalFlush(output_vec, remainder, remainder_bits)
    /\ pc' = "encoded"
    /\ UNCHANGED <<assign_vec, rle_vec, max_val_bits, max_len_bits, n_bytes, remainder,
                   remainder_bits, new_val, n_bits_left, idx, decoded_rle, decoded_vec>>
    /\ UNCHANGED <<benVars, b32Vars, xlVars>>

\* the decoder reads the header and unpacks byteLength payload bytes
UnpackBlock ==
    /\ pc = "encoded"
    /\ decoded_rle' = DecodeBlock(output_vec).runs
    /\ pc' = "unpacked"
    /\ UNCHANGED <<assign_vec, rle_vec, max_val_bits, max_len_bits, n_bytes, output_vec,
                   remainder, remainder_bits, new_val, n_bits_left, idx, decoded_vec>>
    /\ UNCHANGED <<benVars, b32Vars, xlVars>>

\* the decoder expands the runs
ExpandRuns ==
    /\ pc = "unpacked"
    /\ TotalLen(decoded_rle) <= MaxExpand
    /\ decoded_vec' = rle_to_vec(decoded_rle)
    /\ pc' = "decoded"
    /\ UNCHANGED <<assign_vec, rle_vec, max_val_bits, max_len_bits, n_bytes, output_vec,
                   remainder, remainder_bits, new_val, n_bits_left, idx, decoded_rle>>
    /\ UNCHANGED <<benVars, b32Vars, xlVars>>

NextBlock ==
    \/ AssignToRle
    \/ PanicEmpty
    \/ ComputeWidths
    \/ ShiftVal
    \/ EmitValByte
    \/ ShiftLen
    \/ EmitLenByte
    \/ EndRun
    \/ Flush
    \/ UnpackBlock
    \/ ExpandRuns

SpecBlock == InitBlock /\ [][NextBlock]_vars

\* the stepwise encoder returns what the function returns
StepwiseAgrees ==
    pc \in {"encoded", "unpacked", "decoded"} =>
        output_vec = encode_ben_vec_from_rle(rle_vec).bytes

---------------------------------------------------------------------------
(* Reference definitions the claims are stated with.                       *)

\* the w bits of the number x, most significant first
Bits(x, w) == [i \in 1..w |-> (x \div (2 ^ (w - i))) % 2]

\* bit i (0 = least significant) of a u32
Bit32(x, i) == IF i >= 16 THEN (x[1] \div (2 ^ (i - 16))) % 2 ELSE (x[2] \div (2 ^ i)) % 2

\* the low n bits of a u32, most significant first
AccBits(x, n) == [i \in 1..n |-> Bit32(x, n - i)]

\* a u32 is below 2^k, for k in 0..32
Lt2Pow(x, k) ==
    IF k >= 32 THEN TRUE
    ELSE IF k >= 16 THEN x[1] < 2 ^ (k - 16)
    ELSE x[1] = 0 /\ x[2] < 2 ^ k

RECURSIVE ByteBits(_)
\* the bits of a byte string
ByteBits(bytes) ==
    IF Len(bytes) = 0 THEN <<>> ELSE Bits(bytes[1], 8) \o ByteBits(Tail(bytes))

RECURSIVE RunBits(_, _, _)
\* every run's vb-bit value then lb-bit length, in order
RunBits(runs, vb, lb) ==
    IF Len(runs) = 0 THEN <<>>
    ELSE Bits(runs[1][1], vb) \o Bits(runs[1][2], lb) \o RunBits(Tail(runs), vb, lb)

\* the number of bits in the binary representation of x
RECURSIVE bitsNeeded(_)
bitsNeeded(x) == IF x = 0 THEN 0 ELSE 1 + bitsNeeded(x \div 2)

\* the least width, at least lo, in which every member of S fits
MinWidth(S, lo) ==
    CHOOSE w \in lo..16 :
        /\ \A x \in S : x < 2 ^ w
        /\ \A u \in lo..(w - 1) : \E x \in S : x >= 2 ^ u

\* the least number of bytes holding n bits
CeilBytes(n) == CHOOSE k \in 0..n : 8 * k >= n /\ 8 * k < n + 8

SetMax(S) == CHOOSE x \in S : \A y \in S : y <= x

RunValues(runs) == {runs[i][1] : i \in 1..Len(runs)}
RunLengths(runs) == {runs[i][2] : i \in 1..Len(runs)}

\* the payload bytes written so far
Payload == SubSeq(output_vec, 7, Len(output_vec))

\* the widths are computed and the header is written
HeaderWritten ==
    pc \in {"shift_val", "emit_val", "emit_len", "flush", "encoded", "unpacked", "decoded"}

BlockDone == pc \in {"encoded", "unpacked", "decoded"}

\* the bits of the fields the packing loop has shifted in so far
PushedBits ==
    RunBits(SubSeq(rle_vec, 1, idx - 1), max_val_bits, max_len_bits)
    \o (IF pc \in {"emit_val", "emit_len"}
        THEN Bits(rle_vec[idx][1], max_val_bits) ELSE <<>>)
    \o (IF pc = "emit_len" THEN Bits(rle_vec[idx][2], max_len_bits) ELSE <<>>)

\* the zero bits that pad the final byte of the block
PadBits == 8 * n_bytes - Len(rle_vec) * (max_val_bits + max_len_bits)

SelectRuns(runs) == SelectSeq(runs, LAMBDA r : r[2] > 0)

---------------------------------------------------------------------------
(* Claims about one block (SpecBlock).                                     *)

\* C1: a vector of length >= 1 with labels in 0..65535, taken to runs, encoded by
\* encode_ben_vec_from_rle and decoded again (header, byteLength payload bytes,
\* MSB-first unpacking, expansion of the runs), comes back unchanged.
C1_RoundTrip ==
    (pc = "decoded" /\ Len(assign_vec) >= 1) => decoded_vec = assign_vec

C1_Witness ==
    /\ pc = "decoded"
    /\ Len(assign_vec) = MaxVecLen
    /\ Len(rle_vec) >= 2
    /\ 65535 \in RunValues(rle_vec)

C4_ByteLength ==
    BlockDone =>
        /\ n_bytes = CeilBytes(Len(rle_vec) * (output_vec[1] + output_vec[2]))
        /\ from_be_bytes(SubSeq(output_vec, 3, 6)) = n_bytes
        /\ Len(output_vec) = 6 + n_bytes

C4_Witness ==
    /\ pc = "encoded"
    /\ remainder_bits > 0
    /\ n_bytes >= 3
    /\ Len(output_vec) = 6 + n_bytes

\* C5: the valueBits byte is max(1, bitsNeeded(greatest value)), the lengthBits
\* byte is bitsNeeded(greatest length), and they are the least widths (valueBits
\* at least 1) in which every value and every length of the block fits.
C5_Widths ==
    HeaderWritten =>
        LET mv == SetMax(RunValues(rle_vec))
            ml == SetMax(RunLengths(rle_vec))
        IN  /\ output_vec[1] = max_val_bits
            /\ output_vec[2] = max_len_bits
            /\ max_val_bits = (IF bitsNeeded(mv) >= 1 THEN bitsNeeded(mv) ELSE 1)
            /\ max_len_bits = bitsNeeded(ml)
            /\ max_val_bits = MinWidth(RunValues(rle_vec), 1)
            /\ max_len_bits = MinWidth(RunLengths(rle_vec), 0)

C5_Witness ==
    /\ pc = "encoded"
    /\ RunValues(rle_vec) = {0}
    /\ output_vec[1] = 1
    /\ output_vec[2] = 16

\* C10: after each field's emission loop fewer than 8 bits are left over and the
\* accumulator is below 2^(bits left over); the accumulator never holds more than
\* 23 significant bits; and the payload bytes emitted so far followed by the bits
\* left over are the bits of the fields shifted in so far, in order.
C10_Accumulator ==
    /\ pc \in {"emit_val", "emit_len"} =>
           /\ n_bits_left <= 23
           /\ Lt2Pow(new_val, 23)
           /\ Lt2Pow(new_val, n_bits_left)
           /\ ByteBits(Payload) \o AccBits(new_val, n_bits_left) = PushedBits
    /\ pc \in {"shift_val", "flush"} =>
           /\ remainder_bits < 8
           /\ Lt2Pow(remainder, remainder_bits)
           /\ ByteBits(Payload) \o AccBits(remainder, remainder_bits) = PushedBits
    /\ HeaderWritten => (max_val_bits \in 1..16 /\ max_len_bits \in 1..16)

C10_Witness ==
    /\ pc = "emit_len"
    /\ max_len_bits = 16
    /\ n_bits_left = 23
    /\ ~Lt2Pow(new_val, 22)

---------------------------------------------------------------------------
(* SpecBen: jsonl_encode_ben, one line of the input per step.              *)

\* A line of the input: kind "assign" is valid JSON whose "assignment" is the array
\* vec, "noassign" is valid JSON without an "assignment" array, "badjson" is not JSON.
AssignLine(v) == [kind |-> "assign", vec |-> v]
NoAssignLine == [kind |-> "noassign", vec |-> <<>>]
BadJsonLine == [kind |-> "badjson", vec |-> <<>>]

DocLine1 == AssignLine(<<1, 1, 1, 2, 2, 2>>)
DocLine2 == AssignLine(<<1, 1, 2, 2, 1, 2>>)

LineSet ==
    {DocLine1, DocLine2, AssignLine(<<>>), AssignLine(<<0>>), AssignLine(<<5, 5, 300>>),
     NoAssignLine, BadJsonLine}

\* assign_vec.into_iter().map(|x| x.as_u64().unwrap() as u16).collect()
LineVec(line) == [i \in 1..Len(line.vec) |-> AsU16(line.vec[i])]

\* encode_ben_vec_from_rle(assign_to_rle(...)) of a line with an assignment
EncodeLine(line) == encode_ben_vec_from_rle(assign_to_rle(LineVec(line)))

InitBen ==
    /\ lines \in SeqsUpTo(LineSet, MaxLines)
    /\ line_num = 1
    /\ writer = <<>>
    /\ status = "start"
    /\ IdleBlock /\ IdleBen32 /\ IdleXlate

\* writer.write_all("STANDARD BEN FILE".as_bytes())
BenWriteHeader ==
    /\ status = "start"
    /\ writer' = writer \o Magic
    /\ status' = "running"
    /\ UNCHANGED <<lines, line_num>>
    /\ UNCHANGED <<blockVars, b32Vars, xlVars>>

\* a loop iteration on a line with an assignment: its block is written
BenEncodeLine ==
    /\ status = "running"
    /\ line_num <= Len(lines)
    /\ lines[line_num].kind = "assign"
    /\ EncodeLine(lines[line_num]).ok
    /\ writer' = writer \o EncodeLine(lines[line_num]).bytes
    /\ line_num' = line_num + 1
    /\ UNCHANGED <<lines, status>>
    /\ UNCHANGED <<blockVars, b32Vars, xlVars>>

\* a loop iteration on a line with an assignment whose encoding panics
BenPanicEncode ==
    /\ status = "running"
    /\ line_num <= Len(lines)
    /\ lines[line_num].kind = "assign"
    /\ ~EncodeLine(lines[line_num]).ok
    /\ status' = "panicked"
    /\ line_num' = line_num + 1
    /\ UNCHANGED <<lines, writer>>
    /\ UNCHANGED <<blockVars, b32Vars, xlVars>>

\* a loop iteration on a line without an assignment: the if let does not match
BenSkipLine ==
    /\ status = "running"
    /\ line_num <= Len(lines)
    /\ lines[line_num].kind = "noassign"
    /\ line_num' = line_num + 1
    /\ UNCHANGED <<lines, writer, status>>
    /\ UNCHANGED <<blockVars, b32Vars, xlVars>>

\* a loop iteration on a line that is not JSON: expect() panics
BenPanicJson ==
    /\ status = "running"
    /\ line_num <= Len(lines)
    /\ lines[line_num].kind = "badjson"
    /\ status' = "panicked"
    /\ line_num' = line_num + 1
    /\ UNCHANGED <<lines, writer>>
    /\ UNCHANGED <<blockVars, b32Vars, xlVars>>

\* the input is exhausted: Ok(())
BenFinish ==
    /\ status = "running"
    /\ line_num > Len(lines)
    /\ status' = "ok"
    /\ UNCHANGED <<lines, line_num, writer>>
    /\ UNCHANGED <<blockVars, b32Vars, xlVars>>

NextBen ==
    \/ BenWriteHeader
    \/ BenEncodeLine
    \/ BenPanicEncode
    \/ BenSkipLine
    \/ BenPanicJson
    \/ BenFinish

SpecBen == InitBen /\ [][NextBen]_vars

---------------------------------------------------------------------------
(* Claims about jsonl_encode_ben (SpecBen).                                *)

\* bit i of a bit string, 0 beyond its end
BitAt(bits, i) == IF i <= Len(bits) THEN bits[i] ELSE 0

\* a bit string as bytes, most significant bit first, the last byte zero-padded
BitsToBytes(bits) ==
    [k \in 1..CeilBytes(Len(bits)) |->
        LET b(j) == BitAt(bits, 8 * (k - 1) + j)
        IN  128 * b(1) + 64 * b(2) + 32 * b(3) + 16 * b(4)
            + 8 * b(5) + 4 * b(6) + 2 * b(7) + b(8)]

\* the block of a non-empty vector, from the format's definition
RefBlock(vec) ==
    LET runs == assign_to_rle(vec)
        vb   == MinWidth(RunValues(runs), 1)
        lb   == MinWidth(RunLengths(runs), 0)
        bits == RunBits(runs, vb, lb)
        nb   == CeilBytes(Len(bits))
    IN  <<vb, lb, nb \div 16777216, (nb \div 65536) % 256, (nb \div 256) % 256, nb % 256>>
        \o BitsToBytes(bits)

RECURSIVE RefBlocks(_)
\* the blocks of a sequence of lines; a line without an assignment has none
RefBlocks(ls) ==
    IF Len(ls) = 0 THEN <<>>
    ELSE (IF ls[1].kind = "assign" THEN RefBlock(ls[1].vec) ELSE <<>>)
         \o RefBlocks(Tail(ls))

NonEmptyAssign(line) == line.kind = "assign" /\ Len(line.vec) >= 1

\* the lines the loop has taken so far
Taken == SubSeq(lines, 1, line_num - 1)

\* C3: when every line carries a non-empty assignment the writer receives the 17
\* magic bytes once and then one block per line, in input order and with nothing
\* between them, each block the header [valueBits][lengthBits][byteLength BE] and
\* the MSB-first bits of its runs zero-padded to whole bytes; the two documented
\* lines give [2,2,0,0,0,1,123] and [2,2,0,0,0,2,106,89].
C3_OutputBytes ==
    /\ (status \in {"running", "ok"} /\ \A i \in 1..Len(lines) : NonEmptyAssign(lines[i]))
           => writer = Magic \o RefBlocks(Taken)
    /\ (status = "ok" /\ \A i \in 1..Len(lines) : NonEmptyAssign(lines[i]))
           => writer = Magic \o RefBlocks(lines)
    /\ (status = "ok" /\ lines = <<DocLine1, DocLine2>>)
           => writer = Magic \o <<2, 2, 0, 0, 0, 1, 123>> \o <<2, 2, 0, 0, 0, 2, 106, 89>>

C3_Witness ==
    /\ status = "ok"
    /\ lines = <<DocLine1, DocLine2>>
    /\ SubSeq(writer, 18, Len(writer)) = <<2, 2, 0, 0, 0, 1, 123, 2, 2, 0, 0, 0, 2, 106, 89>>

\* C7 as stated: a line that is valid JSON without an assignment array aborts the
\* run, so once such a line is taken the run has failed, and a run that reports
\* success has written one block per input line.
C7_MissingAssignmentFatal ==
    /\ \A i \in 1..Len(lines) :
           (i < line_num /\ lines[i].kind = "noassign") => status = "panicked"
    /\ status = "ok" => \A i \in 1..Len(lines) : lines[i].kind = "assign"

\* C9: encode_ben_vec_from_rle panics on zero runs and returns no bytes, so
\* jsonl_encode_ben stops at a line with an empty assignment: the blocks of the
\* lines before it are written, none for that line or a later one.
C9_EmptyAssignmentAborts ==
    /\ ~encode_ben_vec_from_rle(<<>>).ok
    /\ encode_ben_vec_from_rle(<<>>).bytes = <<>>
    /\ \A i \in 1..Len(lines) :
           (i < line_num /\ lines[i] = AssignLine(<<>>)) =>
               /\ status = "panicked"
               /\ line_num = i + 1
               /\ writer = Magic \o RefBlocks(SubSeq(lines, 1, i - 1))

C9_Witness ==
    /\ status = "panicked"
    /\ Len(lines) = 2
    /\ lines[1] = DocLine1
    /\ lines[2] = AssignLine(<<>>)
    /\ writer = Magic \o <<2, 2, 0, 0, 0, 1, 123>>

---------------------------------------------------------------------------
(* SpecBen32: encode_ben_32_line on one line.                              *)

\* the locals of encode_ben_32_line before the loop; panicked is the overflow
\* panic of  count += 1  in a build with overflow checks
Ben32Start ==
    [prev_assign |-> 0, count |-> 0, first |-> TRUE, ret |-> <<>>, panicked |-> FALSE]

\* (prev_assign as u32) << 16 | count as u32, as big-endian bytes
Ben32Word(prev_assign, count) ==
    to_be_bytes(Or32(Shl32(U32(prev_assign), 16), U32(count)))

\* count += 1 on the u16 counter: at 65535 a debug build panics, a release build
\* wraps to 0
Ben32Increment(st, bld) ==
    IF st.count + 1 < U16Mod THEN [st EXCEPT !.count = st.count + 1]
    ELSE IF bld = "debug" THEN [st EXCEPT !.panicked = TRUE]
    ELSE [st EXCEPT !.count = (st.count + 1) % U16Mod]

\* the body of  for assignment in assign_vec
Ben32Body(st, x, bld) ==
    LET assign == AsU16(x) IN
    IF st.panicked THEN st
    ELSE IF st.first
    THEN [st EXCEPT !.prev_assign = assign, !.count = 1, !.first = FALSE]
    ELSE IF assign = st.prev_assign
    THEN Ben32Increment(st, bld)
    ELSE [st EXCEPT !.ret = st.ret \o Ben32Word(st.prev_assign, st.count),
                    !.prev_assign = assign,
                    !.count = 1]

\* The assignment array of a line of SpecBen32 is held as a sequence of blocks
\* <<label, n>>, n copies of label, so that an array with a run longer than 65535
\* stays small in the state; ElemAt gives the elements of the array itself.
RECURSIVE ArrayLen(_)
ArrayLen(blocks) == IF Len(blocks) = 0 THEN 0 ELSE blocks[1][2] + ArrayLen(Tail(blocks))

RECURSIVE ElemAt(_, _)
\* element i (1-based) of the array
ElemAt(blocks, i) ==
    IF i <= blocks[1][2] THEN blocks[1][1] ELSE ElemAt(Tail(blocks), i - blocks[1][2])

\* the array that has the elements of the sequence v
BlocksOf(v) == [i \in 1..Len(v) |-> <<v[i], 1>>]

Assign32(blocks) == [kind |-> "assign", array |-> blocks]
NoAssign32 == [kind |-> "noassign", array |-> <<>>]

RECURSIVE Ben32Loop(_, _, _, _, _)
\* the loop over elements lo..hi of assign_vec, the body applied to each element in
\* order (the range is halved so that the evaluation stays shallow)
Ben32Loop(st, blocks, lo, hi, bld) ==
    IF lo > hi THEN st
    ELSE IF lo = hi THEN Ben32Body(st, ElemAt(blocks, lo), bld)
    ELSE LET mid  == (lo + hi) \div 2
             left == Ben32Loop(st, blocks, lo, mid, bld)
         IN  IF left.panicked THEN left ELSE Ben32Loop(left, blocks, mid + 1, hi, bld)

\* encode_ben_32_line: ok = FALSE is a panic (unwrap() of a missing assignment
\* array, or the overflow of count in a debug build)
encode_ben_32_line(line, bld) ==
    IF line.kind # "assign" THEN [ok |-> FALSE, bytes |-> <<>>]
    ELSE LET st == Ben32Loop(Ben32Start, line.array, 1, ArrayLen(line.array), bld) IN
         IF st.panicked THEN [ok |-> FALSE, bytes |-> <<>>]
         ELSE [ok    |-> TRUE,
               bytes |-> (IF st.count > 0
                          THEN st.ret \o Ben32Word(st.prev_assign, st.count)
                          ELSE st.ret) \o <<0, 0, 0, 0>>]

Lines32 ==
    {Assign32(BlocksOf(v)) : v \in SeqsUpTo({0, 1}, MaxLen32)}
    \cup {Assign32(<< <<v, n>>, <<1, 1>> >>) : v \in {0, 3}, n \in {U16Mod - 1, U16Mod}}
    \cup {Assign32(<< <<0, U16Mod>> >>)}
    \cup {NoAssign32}

InitBen32 ==
    /\ data \in Lines32
    /\ build \in {"debug", "release"}
    /\ ret = <<>>
    /\ status32 = "start"
    /\ IdleBlock /\ IdleBen /\ IdleXlate

\* the call returns its bytes
Ben32Encode ==
    /\ status32 = "start"
    /\ encode_ben_32_line(data, build).ok
    /\ ret' = encode_ben_32_line(data, build).bytes
    /\ status32' = "done"
    /\ UNCHANGED <<data, build>>
    /\ UNCHANGED <<blockVars, benVars, xlVars>>

\* the call panics
Ben32Panic ==
    /\ status32 = "start"
    /\ ~encode_ben_32_line(data, build).ok
    /\ status32' = "panicked"
    /\ UNCHANGED <<data, build, ret>>
    /\ UNCHANGED <<blockVars, benVars, xlVars>>

NextBen32 ==
    \/ Ben32Encode
    \/ Ben32Panic

SpecBen32 == InitBen32 /\ [][NextBen32]_vars

\* word k (1-based) of a ben32 byte string, as its four bytes
WordAt(bytes, k) == SubSeq(bytes, 4 * k - 3, 4 * k)

\* C6 as stated: every word encode_ben_32_line emits for a run is different from
\* 0x00000000 and has low 16 bits (the run length) different from zero, so the only
\* zero word of the output is the terminator in its last 4 bytes.
C6_SentinelDistinct ==
    status32 = "done" =>
        /\ Len(ret) % 4 = 0
        /\ Len(ret) >= 4
        /\ WordAt(ret, Len(ret) \div 4) = <<0, 0, 0, 0>>
        /\ \A k \in 1..(Len(ret) \div 4 - 1) :
               /\ WordAt(ret, k) # <<0, 0, 0, 0>>
               /\ <<WordAt(ret, k)[3], WordAt(ret, k)[4]>> # <<0, 0>>

---------------------------------------------------------------------------
(* SpecXlate: encode_ben_to_xben.  The XzEncoder is an opaque compressor:  *)
(* encoder_in is what it was fed, and the one write of its output to the   *)
(* writer is the record [xz |-> bytes fed].  ben_to_ben32_lines is not     *)
(* among the sources; it is modelled from section 4.4 of the specification.*)

MagicLen == 17

\* HeaderOk comparing only the first word of the magic
HeaderOkPrefix(buf) == SubSeq(buf, 1, 8) = SubSeq(Magic, 1, 8)

\* &check_buffer == b"STANDARD BEN FILE"
HeaderOk(buf) == buf = Magic

RECURSIVE Ben32OfRuns(_)
\* Ben32Transcoder.blockToBen32: one word per run, then the zero word
Ben32OfRuns(runs) ==
    IF Len(runs) = 0 THEN <<0, 0, 0, 0>>
    ELSE Ben32Word(runs[1][1], runs[1][2]) \o Ben32OfRuns(Tail(runs))

RECURSIVE Concat(_)
Concat(ss) == IF Len(ss) = 0 THEN <<>> ELSE ss[1] \o Concat(Tail(ss))

\* the magic with byte i changed
Corrupt(i) == [Magic EXCEPT ![i] = (Magic[i] + 1) % 256]

XBlocks ==
    {encode_ben_vec_from_rle(r).bytes :
        r \in {<< <<1, 3>>, <<2, 3>> >>, << <<0, 1>> >>, << <<300, 2>>, <<7, 1>> >>}}

XBlock1 == encode_ben_vec_from_rle(<< <<1, 3>>, <<2, 3>> >>).bytes

XInputs ==
    {SubSeq(Magic, 1, n) : n \in 0..(MagicLen - 1)}
    \cup {Corrupt(i) \o t : i \in 1..MagicLen, t \in {<<>>, XBlock1}}
    \cup {Magic \o Concat(bs) : bs \in SeqsUpTo(XBlocks, MaxBlocks)}
    \cup {Magic \o SubSeq(XBlock1, 1, n) : n \in {3, 6}}

InitXlate ==
    /\ reader \in XInputs
    /\ rpos = 0
    /\ check_buffer = [i \in 1..MagicLen |-> 0]
    /\ encoder_in = <<>>
    /\ xwriter = <<>>
    /\ xpc = "read_header"
    /\ xstatus = "running"
    /\ IdleBlock /\ IdleBen /\ IdleBen32

\* what is left of the input
Rest == SubSeq(reader, rpos + 1, Len(reader))

\* reader.read_exact(&mut check_buffer)? on an input of at least 17 bytes
XReadHeader ==
    /\ xpc = "read_header"
    /\ Len(reader) >= MagicLen
    /\ check_buffer' = SubSeq(reader, 1, MagicLen)
    /\ rpos' = MagicLen
    /\ xpc' = "check"
    /\ UNCHANGED <<reader, encoder_in, xwriter, xstatus>>
    /\ UNCHANGED <<blockVars, benVars, b32Vars>>

\* read_exact on a shorter input: Err(UnexpectedEof), returned by ?
XReadHeaderEof ==
    /\ xpc = "read_header"
    /\ Len(reader) < MagicLen
    /\ rpos' = Len(reader)
    /\ xstatus' = "err_eof"
    /\ xpc' = "done"
    /\ UNCHANGED <<reader, check_buffer, encoder_in, xwriter>>
    /\ UNCHANGED <<blockVars, benVars, b32Vars>>

\* the header differs: Err(InvalidData, "Invalid file format")
XRejectHeader ==
    /\ xpc = "check"
    /\ ~HeaderOk(check_buffer)
    /\ xstatus' = "err_format"
    /\ xpc' = "done"
    /\ UNCHANGED <<reader, rpos, check_buffer, encoder_in, xwriter>>
    /\ UNCHANGED <<blockVars, benVars, b32Vars>>

\* the encoder is created and fed b"STANDARD BEN FILE"
XWriteHeader ==
    /\ xpc = "check"
    /\ HeaderOk(check_buffer)
    /\ encoder_in' = encoder_in \o Magic
    /\ xpc' = "translate"
    /\ UNCHANGED <<reader, rpos, check_buffer, xwriter, xstatus>>
    /\ UNCHANGED <<blockVars, benVars, b32Vars>>

\* ben_to_ben32_lines: one block is decoded to runs and fed as ben32
XTranslateBlock ==
    /\ xpc = "translate"
    /\ rpos < Len(reader)
    /\ DecodeBlock(Rest).ok
    /\ encoder_in' = encoder_in \o Ben32OfRuns(DecodeBlock(Rest).runs)
    /\ rpos' = Len(reader) - Len(DecodeBlock(Rest).rest)
    /\ UNCHANGED <<reader, check_buffer, xwriter, xpc, xstatus>>
    /\ UNCHANGED <<blockVars, benVars, b32Vars>>

\* ben_to_ben32_lines: the input ends inside a block, the error is returned by ?
XTranslateEof ==
    /\ xpc = "translate"
    /\ rpos < Len(reader)
    /\ ~DecodeBlock(Rest).ok
    /\ rpos' = Len(reader)
    /\ xstatus' = "err_eof"
    /\ xpc' = "done"
    /\ UNCHANGED <<reader, check_buffer, encoder_in, xwriter>>
    /\ UNCHANGED <<blockVars, benVars, b32Vars>>

\* drop(encoder); writer.write_all(&buffer)?; Ok(())
XFinish ==
    /\ xpc = "translate"
    /\ rpos = Len(reader)
    /\ xwriter' = Append(xwriter, [xz |-> encoder_in])
    /\ xstatus' = "ok"
    /\ xpc' = "done"
    /\ UNCHANGED <<reader, rpos, check_buffer, encoder_in>>
    /\ UNCHANGED <<blockVars, benVars, b32Vars>>

NextXlate ==
    \/ XReadHeader
    \/ XReadHeaderEof
    \/ XRejectHeader
    \/ XWriteHeader
    \/ XTranslateBlock
    \/ XTranslateEof
    \/ XFinish

SpecXlate == InitXlate /\ [][NextXlate]_vars

\* the input does not start with the 17 magic bytes
BadHeader == Len(reader) < MagicLen \/ SubSeq(reader, 1, MagicLen) # Magic

\* C8 as stated: an input whose leading bytes are not the magic (wrong bytes, or
\* fewer than 17 bytes) fails with the format error, before any block is decoded,
\* with the compressor never fed and nothing written.
C8_HeaderValidation ==
    BadHeader =>
        /\ xpc = "done" => xstatus = "err_format"
        /\ xpc \in {"read_header", "check", "done"}
        /\ rpos <= MagicLen
        /\ encoder_in = <<>>
        /\ xwriter = <<>>

\* C8 as amended: such an input fails before any block is decoded, with the
\* compressor never fed and nothing written; the error is the format error
\* (InvalidData) when 17 bytes were read and differ from the magic, and the
\* UnexpectedEof error of read_exact when the input has fewer than 17 bytes.
C8_HeaderValidationByKind ==
    BadHeader =>
        /\ xpc = "done" =>
               xstatus = (IF Len(reader) < MagicLen THEN "err_eof" ELSE "err_format")
        /\ xpc \in {"read_header", "check", "done"}
        /\ rpos <= MagicLen
        /\ encoder_in = <<>>
        /\ xwriter = <<>>

C8_Witness ==
    /\ xpc = "done"
    /\ xstatus = "err_format"
    /\ Len(reader) > MagicLen
    /\ SubSeq(reader, 1, 8) = SubSeq(Magic, 1, 8)
    /\ encoder_in = <<>>

=============================================================================
